---- MODULE Spec2Model ----
(***************************************************************************)
(* L0 -> L1 spectrometer processing: the correction chain, the uncertainty *)
(* model, the quality classifier and the batch orchestrator of             *)
(* processor.py / corrections.py / scodes.py.                              *)
(*                                                                         *)
(* Numbers.  A Python float is modelled as an exact rational <<n, d>> in   *)
(* lowest terms with d > 0; the non-finite floats are <<0,0>> (nan),       *)
(* <<1,0>> (+inf) and <<-1,0>> (-inf).  A numpy array is a sequence of     *)
(* such values.  np.sqrt is the one irrational operation: it is modelled   *)
(* as the square root rounded down to a multiple of 1/1000 (the float      *)
(* sqrt is likewise a rounded square root).                                *)
(***************************************************************************)
EXTENDS Integers, Sequences, FiniteSets, TLC

VARIABLES
    records,        \* argument: List[L0Record]
    scode,          \* argument: SCodeConfig
    cal,            \* argument: CalibrationData
    pc,             \* position in process_l0_to_l1
    idx,            \* number of records the for loop has consumed
    out,            \* local: List[L1Record]
    stats,          \* local: ProcessStats
    spec,           \* local: working spectrum
    pflag,          \* local: processing flag
    spec_out,       \* local: spectrum written to the L1 record
    output_is_rate, \* local
    unc,            \* local: uncertainty
    dqf,            \* local: quality tier
    steps,          \* history: correction functions called for the current record
    fn              \* the caller: a function under test and its arguments, or a
                    \* sequence of calls (every specification but Spec)

vars == <<records, scode, cal, pc, idx, out, stats, spec, pflag, spec_out,
          output_is_rate, unc, dqf, steps, fn>>

-----------------------------------------------------------------------------
(* Bounds of the model *)

MaxPixels == 3
MaxRecords == 2

-----------------------------------------------------------------------------
(* Exact arithmetic on floats-as-rationals *)

Abs(x) == IF x < 0 THEN -x ELSE x
Min(a, b) == IF a < b THEN a ELSE b
Max(a, b) == IF a < b THEN b ELSE a

RECURSIVE GCD(_, _)
GCD(a, b) == IF b = 0 THEN a ELSE GCD(b, a % b)

Norm(n, d) ==
    LET g == GCD(Abs(n), Abs(d))
        s == IF d < 0 THEN -1 ELSE 1
    IN  IF n = 0 THEN <<0, 1>> ELSE <<s * (n \div g), s * (d \div g)>>

Num(k) == <<k, 1>>
NaN == <<0, 0>>
PosInf == <<1, 0>>
NegInf == <<-1, 0>>

IsFinite(x) == x[2] # 0

RNeg(x) == <<-x[1], x[2]>>

RAdd(x, y) ==
    LET g == GCD(x[2], y[2])
        l == (x[2] \div g) * y[2]
    IN  Norm(x[1] * (l \div x[2]) + y[1] * (l \div y[2]), l)

RSub(x, y) == RAdd(x, RNeg(y))

RMul(x, y) ==
    LET g1 == GCD(Abs(x[1]), y[2])
        g2 == GCD(Abs(y[1]), x[2])
    IN  IF x[1] = 0 \/ y[1] = 0 THEN <<0, 1>>
        ELSE Norm((x[1] \div g1) * (y[1] \div g2), (x[2] \div g2) * (y[2] \div g1))

\* x / y for finite x, y; x / 0 is nan or an infinity, as for numpy floats
RDiv(x, y) ==
    IF y[1] = 0
    THEN IF x[1] = 0 THEN NaN ELSE IF x[1] > 0 THEN PosInf ELSE NegInf
    ELSE RMul(x, IF y[1] < 0 THEN <<-y[2], -y[1]>> ELSE <<y[2], y[1]>>)

RSign(x) == IF x[1] > 0 THEN 1 ELSE IF x[1] < 0 THEN -1 ELSE 0

\* x < y for finite x, y: by the integer parts, then by the fractional parts
RLess(x, y) ==
    LET fx == x[1] \div x[2]
        fy == y[1] \div y[2]
        g == GCD(x[2], y[2])
    IN  IF fx # fy THEN fx < fy
        ELSE (x[1] % x[2]) * (y[2] \div g) < (y[1] % y[2]) * (x[2] \div g)

RLeq(x, y) == ~RLess(y, x)
RMax(x, y) == IF RLess(x, y) THEN y ELSE x

RECURSIVE ISqrt(_)
ISqrt(k) ==
    IF k < 2 THEN k
    ELSE LET s == 2 * ISqrt(k \div 4)
         IN  IF (s + 1) * (s + 1) <= k THEN s + 1 ELSE s

\* np.sqrt of x >= 0, rounded down to a multiple of 1/1000
RSqrt(x) ==
    LET y == RMul(x, Num(1000 * 1000))
    IN  Norm(ISqrt(y[1] \div y[2]), 1000)

-----------------------------------------------------------------------------
(* numpy array operations *)

RECURSIVE SumTo(_, _)
SumTo(a, k) == IF k = 0 THEN Num(0) ELSE RAdd(SumTo(a, k - 1), a[k])

\* np.mean
Mean(a) == RDiv(SumTo(a, Len(a)), Num(Len(a)))

RECURSIVE MaxTo(_, _)
MaxTo(a, k) == IF k = 1 THEN a[1] ELSE RMax(MaxTo(a, k - 1), a[k])

\* np.max
ArrMax(a) == MaxTo(a, Len(a))

\* numpy broadcasting of two 1-d shapes
Broadcastable(a, b) == Len(a) = Len(b) \/ Len(a) = 1 \/ Len(b) = 1
At(a, i) == IF Len(a) = 1 THEN a[1] ELSE a[i]

\* a - b and a / b, elementwise with broadcasting (b free of zeros)
VSub(a, b) == [i \in 1..Max(Len(a), Len(b)) |-> RSub(At(a, i), At(b, i))]
VDiv(a, b) == [i \in 1..Max(Len(a), Len(b)) |-> RDiv(At(a, i), At(b, i))]

\* array / scalar
VScale(a, s) == [i \in 1..Len(a) |-> RDiv(a[i], s)]

\* np.clip(a, 0, None)
Clip0(a) == [i \in 1..Len(a) |-> RMax(a[i], Num(0))]

\* the divisor used unguarded
ZeroGuardOff(a) == a

\* np.where(a == 0.0, 1.0, a)
ZeroGuard(a) == [i \in 1..Len(a) |-> IF a[i] = Num(0) THEN Num(1) ELSE a[i]]

\* np.convolve(a, kernel, mode="same"): max(len) values of the full
\* convolution, starting (min(len) - 1) // 2 values in
Convolve(a, kernel) ==
    LET n == Len(a)
        m == Len(kernel)
        off == (Min(n, m) - 1) \div 2
        Term(t, j) == IF t + 1 - j \in 1..m THEN RMul(a[j], kernel[t + 1 - j]) ELSE Num(0)
        Full(t) == SumTo([j \in 1..n |-> Term(t, j)], n)
    IN  [i \in 1..Max(n, m) |-> Full(i + off)]

-----------------------------------------------------------------------------
(* models.py: optional fields *)

None == [some |-> FALSE]
Some(v) == [some |-> TRUE, val |-> v]

-----------------------------------------------------------------------------
(* scodes.py: the recipe catalog *)

SCodeConfig(code, dark, dus, nonlinearity, latency, prnu, count_rate, temperature, straylight_mode, sensitivity, wavelength, qcode) ==
    [code |-> code, dark |-> dark, dark_unc_source |-> dus,
     nonlinearity |-> nonlinearity, latency |-> latency, prnu |-> prnu,
     count_rate |-> count_rate, temperature |-> temperature,
     straylight_mode |-> straylight_mode, sensitivity |-> sensitivity,
     wavelength |-> wavelength, qcode |-> qcode]

get_scode_configs ==
    [c \in {"cs00", "cs01", "cs02", "cs03", "cs04", "mca0", "mca1"} |->
        CASE c = "cs00" -> SCodeConfig(c, TRUE, "MEAS", FALSE, FALSE, FALSE, FALSE,
                                       FALSE, "NO", FALSE, FALSE, "nlim")
          [] c = "cs01" -> SCodeConfig(c, TRUE, "MEAS", TRUE, TRUE, TRUE, TRUE,
                                       FALSE, "NO", FALSE, FALSE, "nlim")
          [] c = "cs02" -> SCodeConfig(c, TRUE, "MEAS", TRUE, TRUE, TRUE, TRUE,
                                       TRUE, "NO", FALSE, FALSE, "nlim")
          [] c = "cs03" -> SCodeConfig(c, TRUE, "MEAS", TRUE, TRUE, TRUE, TRUE,
                                       TRUE, "MM", FALSE, FALSE, "nlim")
          [] c = "cs04" -> SCodeConfig(c, TRUE, "MEAS", TRUE, TRUE, TRUE, TRUE,
                                       TRUE, "MM", TRUE, FALSE, "nlim")
          [] c = "mca0" -> SCodeConfig(c, TRUE, "MAPSIGMA", TRUE, TRUE, TRUE, TRUE,
                                       TRUE, "CORRMM", TRUE, TRUE, "st00")
          [] c = "mca1" -> SCodeConfig(c, TRUE, "MAPSIGMA", TRUE, TRUE, TRUE, TRUE,
                                       TRUE, "CORRMM", TRUE, FALSE, "st00")]

Catalog == {get_scode_configs[c] : c \in DOMAIN get_scode_configs}

-----------------------------------------------------------------------------
(* corrections.py: CalibrationData and the correction steps *)

\* np.linspace(280, 530, n)
Linspace(n) ==
    [i \in 1..n |-> IF n = 1 THEN Num(280)
                    ELSE RAdd(Num(280), RDiv(Num(250 * (i - 1)), Num(n - 1)))]

\* CalibrationData(n_pixels=n) after __post_init__
CalibrationData(n) ==
    [n_pixels |-> n,
     ref_temp_c |-> Num(20),
     prnu |-> [i \in 1..n |-> Num(1)],
     temp_coeff |-> [i \in 1..n |-> Num(0)],
     sensitivity |-> [i \in 1..n |-> Num(1)],
     wavelength_nm |-> Linspace(n)]

nonlinearity_inverse(arr) ==
    [i \in 1..Len(arr) |->
        RSub(arr[i], RMul(<<1, 1000000>>, RMul(arr[i], arr[i])))]

latency_correct(arr) ==
    IF Len(arr) < 3 THEN arr
    ELSE Convolve(arr, << <<1, 20>>, <<9, 10>>, <<1, 20>> >>)

straylight_mm(arr) == Convolve(arr, << <<1, 50>>, <<24, 25>>, <<1, 50>> >>)

straylight_corrmm(arr) == Convolve(arr, << <<3, 100>>, <<47, 50>>, <<3, 100>> >>)

wavelength_correct(arr) == arr

dark_correction(s, dark) == IF ~dark.some THEN s ELSE VSub(s, dark.val)

prnu_correction(s, c) == VDiv(s, ZeroGuard(c.prnu))

\* 1.0 + cal.temp_coeff * (temp_c - cal.ref_temp_c)
TempFactor(temp_c, c) ==
    [i \in 1..Len(c.temp_coeff) |->
        RAdd(Num(1), RMul(c.temp_coeff[i], RSub(temp_c, c.ref_temp_c)))]

temperature_correction(s, temp, c) ==
    IF ~temp.some THEN s ELSE VDiv(s, ZeroGuard(TempFactor(temp.val, c)))

sensitivity_correction(s, c) == VDiv(s, ZeroGuard(c.sensitivity))

\* max(integration_time_ms, 1e-9) / 1000.0
Seconds(integration_time_ms) ==
    RDiv(RMax(integration_time_ms, <<1, 1000000000>>), Num(1000))

to_count_rate(spec_counts, integration_time_ms) ==
    VScale(spec_counts, Seconds(integration_time_ms))

uncertainty_model(corrected_counts, integration_time_ms, is_rate, floor_counts) ==
    LET counts == Clip0(corrected_counts)
        sigma_counts == [i \in 1..Len(counts) |->
                            RSqrt(RAdd(counts[i], RMul(floor_counts, floor_counts)))]
    IN  IF is_rate THEN VScale(sigma_counts, Seconds(integration_time_ms))
        ELSE sigma_counts

\* The shapes a step's array arithmetic needs to be broadcastable (numpy
\* raises ValueError otherwise)
DarkShapesOk(s, dark) == ~dark.some \/ Broadcastable(s, dark.val)
PrnuShapesOk(s, c) == Broadcastable(s, c.prnu)
TempShapesOk(s, temp, c) == ~temp.some \/ Broadcastable(s, c.temp_coeff)
SensShapesOk(s, c) == Broadcastable(s, c.sensitivity)

-----------------------------------------------------------------------------
(* processor.py *)

BIT_DARK == 0
BIT_NONLINEARITY == 1
BIT_LATENCY == 2
BIT_PRNU == 3
BIT_COUNT_RATE == 4
BIT_TEMPERATURE == 5
BIT_STRAYLIGHT == 6
BIT_SENSITIVITY == 7
BIT_WAVELENGTH == 8

\* bit b of p
Bit(p, b) == (p \div (2 ^ b)) % 2 = 1

RECURSIVE BitOr(_, _)
BitOr(p, q) ==
    IF p = 0 THEN q
    ELSE IF q = 0 THEN p
    ELSE 2 * BitOr(p \div 2, q \div 2) + (IF p % 2 = 1 \/ q % 2 = 1 THEN 1 ELSE 0)

\* p | b: the bit number used as the mask
SetBitNoShift(p, b) == BitOr(p, b)

\* p | (1 << b)
SetBit(p, b) == IF Bit(p, b) THEN p ELSE p + 2 ^ b

\* mean(s) / (mean(u) + 1e-12) < k, for finite arrays.  With d = mean(s) - k*mean(u),
\* a rational whose denominator is far below 1e12 / k, the comparison
\* mean(s) < k * (mean(u) + 1e-12) is d <= 0 when mean(u) + 1e-12 > 0 (mean(u) >= 0)
\* and the reversed comparison, d > 0, when the divisor is negative.
SnrLess(s, u, k) ==
    LET ms == Mean(s)
        mu == Mean(u)
    IN  IF RSign(mu) >= 0 THEN RLeq(ms, RMul(Num(k), mu))
        ELSE RLess(RMul(Num(k), mu), ms)

\* the Medium threshold mistaken: snr < 10
DqfThreshold10(s, u) ==
    IF (\E i \in 1..Len(s) : ~IsFinite(s[i])) \/ (\E i \in 1..Len(u) : ~IsFinite(u[i]))
    THEN 2
    ELSE IF RLeq(ArrMax(s), Num(0)) THEN 2
    ELSE IF SnrLess(s, u, 5) THEN 2
    ELSE IF SnrLess(s, u, 10) THEN 1
    ELSE 0

_compute_dqf(s, u) ==
    IF (\E i \in 1..Len(s) : ~IsFinite(s[i])) \/ (\E i \in 1..Len(u) : ~IsFinite(u[i]))
    THEN 2
    ELSE IF RLeq(ArrMax(s), Num(0)) THEN 2
    ELSE IF SnrLess(s, u, 5) THEN 2
    ELSE IF SnrLess(s, u, 15) THEN 1
    ELSE 0

\* ProcessStats() built without the record count
ProcessStatsNoTotal(total) == [total |-> 0, good |-> 0, medium |-> 0, low |-> 0]

ProcessStats(total) == [total |-> total, good |-> 0, medium |-> 0, low |-> 0]

\* L1Record built without metadata=rec.metadata: the dataclass default, {}
L1RecordNoMetadata(timestamp, integration_time_ms, spectrum, uncertainty, processing_flag, tier, metadata) ==
    [timestamp |-> timestamp, integration_time_ms |-> integration_time_ms,
     spectrum |-> spectrum, uncertainty |-> uncertainty,
     processing_flag |-> processing_flag, dqf |-> tier, metadata |-> "{}"]

L1Record(timestamp, integration_time_ms, spectrum, uncertainty, processing_flag, tier, metadata) ==
    [timestamp |-> timestamp, integration_time_ms |-> integration_time_ms,
     spectrum |-> spectrum, uncertainty |-> uncertainty,
     processing_flag |-> processing_flag, dqf |-> tier, metadata |-> metadata]

-----------------------------------------------------------------------------
(* The arguments process_l0_to_l1 is called with *)

\* A CalibrationData whose placeholder arrays were replaced by loaded ones:
\* a zero PRNU entry at the first pixel, a zero sensitivity entry and a
\* temperature coefficient of -0.1 (factor 0 at 30 C) at the last one
LoadedCalibration(n) ==
    [CalibrationData(n) EXCEPT
        !.prnu = [i \in 1..n |-> IF i = 1 THEN Num(0) ELSE Num(2)],
        !.temp_coeff = [i \in 1..n |-> IF i = n THEN <<-1, 10>> ELSE <<1, 10>>],
        !.sensitivity = [i \in 1..n |-> IF i = n THEN Num(0) ELSE Num(2)]]

Calibrations(n) == {CalibrationData(n), LoadedCalibration(n)}

\* Acquisitions of n pixels, <<integration time, spectrum>>: a short exposure
\* with a bright first pixel over a dim rest, and a long, dim, flat one
Acquisitions(n) ==
    {<<Num(500), [i \in 1..n |-> IF i = 1 THEN Num(1000) ELSE Num(100)]>>,
     <<Num(1000), [i \in 1..n |-> Num(100)]>>}

\* Dark frames of n pixels: absent, or a flat frame above the dim level
Darks(n) == {None, Some([i \in 1..n |-> Num(200)])}

Temperatures == {None, Some(Num(30))}

L0Record(timestamp, integration_time_ms, spectrum_counts, dark_counts, temperature_c, metadata) ==
    [timestamp |-> timestamp, integration_time_ms |-> integration_time_ms,
     spectrum_counts |-> spectrum_counts, dark_counts |-> dark_counts,
     temperature_c |-> temperature_c, metadata |-> metadata]

\* The records read_l0_csv-like readers hand over: the k-th record of a file
\* carries the k-th timestamp and the file's name as metadata
RecordsAt(k, n) ==
    {L0Record(k, a[1], a[2], d, c, "source_file") :
        a \in Acquisitions(n), d \in Darks(n), c \in Temperatures}

Batches(n) ==
    UNION {{b \in [1..len -> UNION {RecordsAt(k, n) : k \in 1..len}] :
               \A k \in 1..len : b[k].timestamp = k} : len \in 0..MaxRecords}

-----------------------------------------------------------------------------
(* process_l0_to_l1 as a state machine: one action per statement group *)

\* main.py: the calibration is built for the file's pixel count
Init ==
    /\ \E n \in 1..MaxPixels :
          /\ cal = CalibrationData(n)
          /\ records \in Batches(n)
    /\ scode \in Catalog
    /\ pc = "call"
    /\ idx = 0
    /\ out = <<>>
    /\ stats = ProcessStats(0)
    /\ spec = <<>>
    /\ pflag = 0
    /\ spec_out = <<>>
    /\ output_is_rate = FALSE
    /\ unc = <<>>
    /\ dqf = 0
    /\ steps = <<>>
    /\ fn = None

args == <<records, scode, cal, fn>>
tail == <<spec_out, output_is_rate, unc, dqf>>

\* the record the loop body works on
rec == records[idx]

\* an exception leaves process_l0_to_l1: nothing is returned
Raise ==
    /\ pc' = "raised"
    /\ UNCHANGED <<args, idx, out, stats, spec, pflag, tail, steps>>

\* a correction step: the spectrum it leaves, the bit it sets
Step(next, name, bit, result) ==
    /\ spec' = result
    /\ pflag' = SetBit(pflag, bit)
    /\ steps' = Append(steps, name)
    /\ pc' = next
    /\ UNCHANGED <<args, idx, out, stats, tail>>

Skip(next) ==
    /\ pc' = next
    /\ UNCHANGED <<args, idx, out, stats, spec, pflag, tail, steps>>

Call ==
    /\ pc = "call"
    /\ out' = <<>>
    /\ stats' = ProcessStats(Len(records))
    /\ pc' = "for"
    /\ UNCHANGED <<args, idx, spec, pflag, tail, steps>>

ForNext ==
    /\ pc = "for"
    /\ idx < Len(records)
    /\ idx' = idx + 1
    /\ spec' = records[idx + 1].spectrum_counts
    /\ pflag' = 0
    /\ steps' = <<>>
    /\ pc' = "dark"
    /\ UNCHANGED <<args, out, stats, tail>>

Dark ==
    /\ pc = "dark"
    /\ IF scode.dark
       THEN IF DarkShapesOk(spec, rec.dark_counts)
            THEN Step("nonlinearity", "dark", BIT_DARK,
                      dark_correction(spec, rec.dark_counts))
            ELSE Raise
       ELSE Skip("nonlinearity")

Nonlinearity ==
    /\ pc = "nonlinearity"
    /\ IF scode.nonlinearity
       THEN Step("latency", "nonlinearity", BIT_NONLINEARITY, nonlinearity_inverse(spec))
       ELSE Skip("latency")

\* the bit set, the result of latency_correct dropped
LatencyDropped ==
    /\ pc = "latency"
    /\ IF scode.latency
       THEN Step("prnu", "latency", BIT_LATENCY, spec)
       ELSE Skip("prnu")

Latency ==
    /\ pc = "latency"
    /\ IF scode.latency
       THEN Step("prnu", "latency", BIT_LATENCY, latency_correct(spec))
       ELSE Skip("prnu")

Prnu ==
    /\ pc = "prnu"
    /\ IF scode.prnu
       THEN IF PrnuShapesOk(spec, cal)
            THEN Step("temperature", "prnu", BIT_PRNU, prnu_correction(spec, cal))
            ELSE Raise
       ELSE Skip("temperature")

Temperature ==
    /\ pc = "temperature"
    /\ IF scode.temperature
       THEN IF TempShapesOk(spec, rec.temperature_c, cal)
            THEN Step("straylight", "temperature", BIT_TEMPERATURE,
                      temperature_correction(spec, rec.temperature_c, cal))
            ELSE Raise
       ELSE Skip("straylight")

Straylight ==
    /\ pc = "straylight"
    /\ IF scode.straylight_mode = "MM"
       THEN Step("sensitivity", "straylight", BIT_STRAYLIGHT, straylight_mm(spec))
       ELSE IF scode.straylight_mode = "CORRMM"
       THEN Step("sensitivity", "straylight", BIT_STRAYLIGHT, straylight_corrmm(spec))
       ELSE Skip("sensitivity")

Sensitivity ==
    /\ pc = "sensitivity"
    /\ IF scode.sensitivity
       THEN IF SensShapesOk(spec, cal)
            THEN Step("wavelength", "sensitivity", BIT_SENSITIVITY,
                      sensitivity_correction(spec, cal))
            ELSE Raise
       ELSE Skip("wavelength")

Wavelength ==
    /\ pc = "wavelength"
    /\ IF scode.wavelength
       THEN Step("clip", "wavelength", BIT_WAVELENGTH, wavelength_correct(spec))
       ELSE Skip("clip")

\* np.clip left out
ClipSkipped ==
    /\ pc = "clip"
    /\ Skip("rate")

Clip ==
    /\ pc = "clip"
    /\ spec' = Clip0(spec)
    /\ steps' = Append(steps, "clip")
    /\ pc' = "rate"
    /\ UNCHANGED <<args, idx, out, stats, pflag, tail>>

CountRate ==
    /\ pc = "rate"
    /\ IF scode.count_rate
       THEN /\ spec_out' = to_count_rate(spec, rec.integration_time_ms)
            /\ output_is_rate' = TRUE
            /\ pflag' = SetBit(pflag, BIT_COUNT_RATE)
            /\ steps' = Append(steps, "rate")
       ELSE /\ spec_out' = spec
            /\ output_is_rate' = FALSE
            /\ UNCHANGED <<pflag, steps>>
    /\ pc' = "uncertainty"
    /\ UNCHANGED <<args, idx, out, stats, spec, unc, dqf>>

\* the uncertainty computed from the rate-converted spectrum
UncertaintyOfOutput ==
    /\ pc = "uncertainty"
    /\ unc' = uncertainty_model(spec_out, rec.integration_time_ms, output_is_rate, <<3, 2>>)
    /\ steps' = Append(steps, "uncertainty")
    /\ pc' = "dqf"
    /\ UNCHANGED <<args, idx, out, stats, spec, pflag, spec_out, output_is_rate, dqf>>

\* the uncertainty floor taken from the recipe's dark uncertainty source
UncertaintyByDarkSource ==
    /\ pc = "uncertainty"
    /\ unc' = uncertainty_model(spec, rec.integration_time_ms, output_is_rate,
                                IF scode.dark_unc_source = "MAPSIGMA" THEN Num(2) ELSE <<3, 2>>)
    /\ steps' = Append(steps, "uncertainty")
    /\ pc' = "dqf"
    /\ UNCHANGED <<args, idx, out, stats, spec, pflag, spec_out, output_is_rate, dqf>>

Uncertainty ==
    /\ pc = "uncertainty"
    /\ unc' = uncertainty_model(spec, rec.integration_time_ms, output_is_rate, <<3, 2>>)
    /\ steps' = Append(steps, "uncertainty")
    /\ pc' = "dqf"
    /\ UNCHANGED <<args, idx, out, stats, spec, pflag, spec_out, output_is_rate, dqf>>

\* the tier of a record never better than the tier of the record before it
DqfSticky ==
    /\ pc = "dqf"
    /\ dqf' = IF idx = 1 THEN _compute_dqf(spec_out, unc)
              ELSE Max(dqf, _compute_dqf(spec_out, unc))
    /\ stats' = IF dqf' = 0 THEN [stats EXCEPT !.good = @ + 1]
                ELSE IF dqf' = 1 THEN [stats EXCEPT !.medium = @ + 1]
                ELSE [stats EXCEPT !.low = @ + 1]
    /\ steps' = Append(steps, "dqf")
    /\ pc' = "append"
    /\ UNCHANGED <<args, idx, out, spec, pflag, spec_out, output_is_rate, unc>>

Dqf ==
    /\ pc = "dqf"
    /\ dqf' = _compute_dqf(spec_out, unc)
    /\ stats' = IF dqf' = 0 THEN [stats EXCEPT !.good = @ + 1]
                ELSE IF dqf' = 1 THEN [stats EXCEPT !.medium = @ + 1]
                ELSE [stats EXCEPT !.low = @ + 1]
    /\ steps' = Append(steps, "dqf")
    /\ pc' = "append"
    /\ UNCHANGED <<args, idx, out, spec, pflag, spec_out, output_is_rate, unc>>

AppendRecord ==
    /\ pc = "append"
    /\ out' = Append(out, L1Record(rec.timestamp, rec.integration_time_ms, spec_out,
                                   unc, pflag, dqf, rec.metadata))
    /\ pc' = "for"
    /\ UNCHANGED <<args, idx, stats, spec, pflag, tail, steps>>

Return ==
    /\ pc = "for"
    /\ idx = Len(records)
    /\ pc' = "returned"
    /\ UNCHANGED <<args, idx, out, stats, spec, pflag, tail, steps>>

Next ==
    \/ Call
    \/ ForNext
    \/ Dark
    \/ Nonlinearity
    \/ Latency
    \/ Prnu
    \/ Temperature
    \/ Straylight
    \/ Sensitivity
    \/ Wavelength
    \/ Clip
    \/ CountRate
    \/ Uncertainty
    \/ Dqf
    \/ AppendRecord
    \/ Return

Spec == Init /\ [][Next]_vars

-----------------------------------------------------------------------------
(* _compute_dqf called on its own, on arrays of up to MaxPixels values *)

\* process_l0_to_l1 is not running
Idle ==
    /\ pc = "idle"
    /\ idx = 0
    /\ out = <<>>
    /\ stats = ProcessStats(0)
    /\ spec = <<>>
    /\ pflag = 0
    /\ spec_out = <<>>
    /\ output_is_rate = FALSE
    /\ unc = <<>>
    /\ dqf = 0
    /\ steps = <<>>
    /\ records = <<>>
    /\ scode = get_scode_configs["cs00"]
    /\ cal = CalibrationData(1)

machine == <<records, scode, cal, pc, idx, out, stats, spec, pflag, spec_out, output_is_rate, unc, dqf, steps>>

DqfSpectrumValues == {Num(-5), Num(0), Num(5), Num(8), Num(15), Num(20), NaN}
DqfUncertaintyValues == {Num(-1), Num(0), Num(1), PosInf}

InitDqf ==
    /\ Idle
    /\ \E n \in 1..MaxPixels :
          \E s \in [1..n -> DqfSpectrumValues], u \in [1..n -> DqfUncertaintyValues] :
             fn = [op |-> "dqf", s |-> s, u |-> u, done |-> FALSE, r |-> 0]

CallDqf ==
    /\ fn.op = "dqf"
    /\ ~fn.done
    /\ fn' = [fn EXCEPT !.done = TRUE, !.r = _compute_dqf(fn.s, fn.u)]
    /\ UNCHANGED machine

NextDqf == CallDqf

SpecDqf == InitDqf /\ [][NextDqf]_vars

-----------------------------------------------------------------------------
(* The three dividing steps called on their own, with calibration arrays    *)
(* that hold zeros                                                          *)

GuardSpectrumValues == {Num(-100), Num(0), Num(100)}
GuardFactorValues == {Num(0), Num(1), Num(2)}
GuardCoeffValues == {<<-1, 10>>, Num(0), <<1, 10>>}
GuardTemperatures == {None, Some(Num(20)), Some(Num(30))}

InitGuard ==
    /\ Idle
    /\ \E n \in 1..MaxPixels :
          \E s \in [1..n -> GuardSpectrumValues] :
             \/ \E a \in [1..n -> GuardFactorValues] :
                   fn = [op |-> "prnu", s |-> s, temp |-> None, done |-> FALSE, r |-> <<>>,
                         c |-> [CalibrationData(n) EXCEPT !.prnu = a]]
             \/ \E a \in [1..n -> GuardFactorValues] :
                   fn = [op |-> "sensitivity", s |-> s, temp |-> None, done |-> FALSE, r |-> <<>>,
                         c |-> [CalibrationData(n) EXCEPT !.sensitivity = a]]
             \/ \E a \in [1..n -> GuardCoeffValues], t \in GuardTemperatures :
                   fn = [op |-> "temperature", s |-> s, temp |-> t, done |-> FALSE, r |-> <<>>,
                         c |-> [CalibrationData(n) EXCEPT !.temp_coeff = a]]

CallPrnu ==
    /\ fn.op = "prnu"
    /\ ~fn.done
    /\ fn' = [fn EXCEPT !.done = TRUE, !.r = prnu_correction(fn.s, fn.c)]
    /\ UNCHANGED machine

CallTemperature ==
    /\ fn.op = "temperature"
    /\ ~fn.done
    /\ fn' = [fn EXCEPT !.done = TRUE, !.r = temperature_correction(fn.s, fn.temp, fn.c)]
    /\ UNCHANGED machine

CallSensitivity ==
    /\ fn.op = "sensitivity"
    /\ ~fn.done
    /\ fn' = [fn EXCEPT !.done = TRUE, !.r = sensitivity_correction(fn.s, fn.c)]
    /\ UNCHANGED machine

NextGuard ==
    \/ CallPrnu
    \/ CallTemperature
    \/ CallSensitivity

SpecGuard == InitGuard /\ [][NextGuard]_vars

-----------------------------------------------------------------------------
(* cs00, the remaining cs01 steps applied by hand to its output, then cs01  *)
(* on the same record                                                       *)

OrderDarks(n) ==
    {None, Some([i \in 1..n |-> Num(100)]), Some([i \in 1..n |-> Num(200)])}

OrderRecords(n) ==
    {L0Record(1, a[1], a[2], d, c, "source_file") :
        a \in Acquisitions(n), d \in OrderDarks(n), c \in Temperatures}

InitOrder ==
    /\ \E n \in 1..MaxPixels :
          /\ cal \in Calibrations(n)
          /\ \E r \in OrderRecords(n) : records = <<r>>
    /\ scode = get_scode_configs["cs00"]
    /\ pc = "call"
    /\ idx = 0
    /\ out = <<>>
    /\ stats = ProcessStats(0)
    /\ spec = <<>>
    /\ pflag = 0
    /\ spec_out = <<>>
    /\ output_is_rate = FALSE
    /\ unc = <<>>
    /\ dqf = 0
    /\ steps = <<>>
    /\ fn = [op |-> "order", phase |-> "cs00", manual |-> <<>>]

\* nonlinearity, latency, PRNU, clamp and rate conversion, applied to a spectrum
RemainingCs01(s, r, c) ==
    to_count_rate(
        Clip0(prnu_correction(latency_correct(nonlinearity_inverse(s)), c)),
        r.integration_time_ms)

\* the caller applies the remaining cs01 steps to what cs00 returned
Reapply ==
    /\ pc = "returned"
    /\ fn.op = "order"
    /\ fn.phase = "cs00"
    /\ fn' = [fn EXCEPT !.phase = "manual",
                        !.manual = [k \in 1..Len(out) |->
                                       RemainingCs01(out[k].spectrum, records[k], cal)]]
    /\ UNCHANGED machine

\* the caller calls process_l0_to_l1 again, with cs01, on the original records
Rerun ==
    /\ pc = "returned"
    /\ fn.op = "order"
    /\ fn.phase = "manual"
    /\ fn' = [fn EXCEPT !.phase = "cs01"]
    /\ scode' = get_scode_configs["cs01"]
    /\ pc' = "call"
    /\ idx' = 0
    /\ UNCHANGED <<records, cal, out, stats, spec, pflag, tail, steps>>

NextOrder ==
    \/ Next
    \/ Reapply
    \/ Rerun

SpecOrder == InitOrder /\ [][NextOrder]_vars

-----------------------------------------------------------------------------
(* process_l0_to_l1 called with a calibration built for n pixels and a      *)
(* batch whose last record has m pixels, m and n independent                *)

\* a record of n pixels that matches the calibration
MatchingRecord(k, n) ==
    L0Record(k, Num(500), [i \in 1..n |-> IF i = 1 THEN Num(1000) ELSE Num(100)],
             None, None, "source_file")

\* matching records, then one record of m pixels
MismatchBatches(n, m) ==
    UNION {{[k \in 1..len |-> IF k < len THEN MatchingRecord(k, n) ELSE r] :
               r \in RecordsAt(len, m)} : len \in 1..MaxRecords}

InitMismatch ==
    /\ \E n \in 1..MaxPixels, m \in 1..MaxPixels :
          /\ cal = CalibrationData(n)
          /\ records \in MismatchBatches(n, m)
    /\ scode \in Catalog
    /\ pc = "call"
    /\ idx = 0
    /\ out = <<>>
    /\ stats = ProcessStats(0)
    /\ spec = <<>>
    /\ pflag = 0
    /\ spec_out = <<>>
    /\ output_is_rate = FALSE
    /\ unc = <<>>
    /\ dqf = 0
    /\ steps = <<>>
    /\ fn = None

SpecMismatch == InitMismatch /\ [][Next]_vars

-----------------------------------------------------------------------------
(* CalibrationData(n_pixels, ref_temp_c) constructed on its own, n_pixels   *)
(* any integer                                                              *)

ConstructRefTemps ==
    {Num(0), Num(10), Num(15), Num(20), Num(25), Num(30), Num(35), Num(40)}

InitConstruct ==
    /\ Idle
    /\ \E n \in -MaxPixels..MaxPixels, t \in ConstructRefTemps :
          fn = [op |-> "construct", n_pixels |-> n, ref_temp_c |-> t,
                done |-> FALSE, raised |-> FALSE, r |-> None]

\* __post_init__: np.ones and np.zeros raise ValueError for a negative
\* dimension and build empty arrays for 0
Construct ==
    /\ fn.op = "construct"
    /\ ~fn.done
    /\ fn' = IF fn.n_pixels < 0
             THEN [fn EXCEPT !.done = TRUE, !.raised = TRUE]
             ELSE [fn EXCEPT !.done = TRUE,
                      !.r = Some([CalibrationData(fn.n_pixels) EXCEPT
                                     !.ref_temp_c = fn.ref_temp_c])]
    /\ UNCHANGED machine

NextConstruct == Construct

SpecConstruct == InitConstruct /\ [][NextConstruct]_vars

-----------------------------------------------------------------------------
(* process_l0_to_l1 called twice on one batch, with two recipes that differ *)
(* only in dark_unc_source                                                  *)

DarkSourceBatches(n) == MismatchBatches(n, n)

\* the recipe with the other dark_unc_source, every other field kept
OtherDarkSource(sc) ==
    [sc EXCEPT !.dark_unc_source = IF @ = "MEAS" THEN "MAPSIGMA" ELSE "MEAS"]

InitDarkSource ==
    /\ \E n \in 1..MaxPixels :
          /\ cal = CalibrationData(n)
          /\ records \in DarkSourceBatches(n)
    /\ scode \in Catalog
    /\ pc = "call"
    /\ idx = 0
    /\ out = <<>>
    /\ stats = ProcessStats(0)
    /\ spec = <<>>
    /\ pflag = 0
    /\ spec_out = <<>>
    /\ output_is_rate = FALSE
    /\ unc = <<>>
    /\ dqf = 0
    /\ steps = <<>>
    /\ fn = [op |-> "darksource", phase |-> "first", first |-> None]

\* the caller keeps the first call's outcome and calls process_l0_to_l1 again
\* on the same records with the other dark_unc_source
RerunOtherDarkSource ==
    /\ pc \in {"returned", "raised"}
    /\ fn.op = "darksource"
    /\ fn.phase = "first"
    /\ fn' = [fn EXCEPT !.phase = "second",
                        !.first = Some([scode |-> scode, pc |-> pc, out |-> out,
                                        stats |-> stats])]
    /\ scode' = OtherDarkSource(scode)
    /\ pc' = "call"
    /\ idx' = 0
    /\ UNCHANGED <<records, cal, out, stats, spec, pflag, tail, steps>>

NextDarkSource ==
    \/ Next
    \/ RerunOtherDarkSource

SpecDarkSource == InitDarkSource /\ [][NextDarkSource]_vars

-----------------------------------------------------------------------------
(* latency_correct called on its own, on spectra of up to MaxPixels values  *)

LatencySpectrumValues == {Num(0), Num(100), Num(200), Num(1000)}

InitLatency ==
    /\ Idle
    /\ \E n \in 1..MaxPixels :
          \E s \in [1..n -> LatencySpectrumValues] :
             fn = [op |-> "latency", s |-> s, done |-> FALSE, r |-> <<>>]

CallLatency ==
    /\ fn.op = "latency"
    /\ ~fn.done
    /\ fn' = [fn EXCEPT !.done = TRUE, !.r = latency_correct(fn.s)]
    /\ UNCHANGED machine

NextLatency == CallLatency

SpecLatency == InitLatency /\ [][NextLatency]_vars

-----------------------------------------------------------------------------
(* process_l0_to_l1 called on a whole batch and then on its parts, or on    *)
(* the batch in another order                                               *)

\* the k-th record of a file: bright with dark frame and temperature, bright
\* without either, or dim and flat with a dark frame
PartRecordsAt(k, n) ==
    {L0Record(k, Num(500), [i \in 1..n |-> IF i = 1 THEN Num(1000) ELSE Num(100)],
              Some([i \in 1..n |-> Num(200)]), Some(Num(30)), "source_file"),
     L0Record(k, Num(500), [i \in 1..n |-> IF i = 1 THEN Num(1000) ELSE Num(100)],
              None, None, "source_file"),
     L0Record(k, Num(1000), [i \in 1..n |-> Num(100)],
              Some([i \in 1..n |-> Num(200)]), None, "source_file")}

PartBatches(n) ==
    UNION {{b \in [1..len -> UNION {PartRecordsAt(k, n) : k \in 1..len}] :
               \A k \in 1..len : b[k].timestamp = k} : len \in 0..MaxRecords}

\* the orders a batch of len records can be processed in
Orders(len) == {p \in [1..len -> 1..len] : \A i, j \in 1..len : p[i] = p[j] => i = j}

InitParts ==
    /\ \E n \in 1..MaxPixels :
          /\ cal = CalibrationData(n)
          /\ records \in PartBatches(n)
    /\ scode \in Catalog
    /\ pc = "call"
    /\ idx = 0
    /\ out = <<>>
    /\ stats = ProcessStats(0)
    /\ spec = <<>>
    /\ pflag = 0
    /\ spec_out = <<>>
    /\ output_is_rate = FALSE
    /\ unc = <<>>
    /\ dqf = 0
    /\ steps = <<>>
    /\ \/ \E cut \in 0..Len(records) :
             fn = [op |-> "parts", mode |-> "concat", batch |-> records, cut |-> cut,
                   order |-> <<>>, phase |-> "whole", whole |-> None, first |-> None]
       \/ \E order \in Orders(Len(records)) :
             fn = [op |-> "parts", mode |-> "order", batch |-> records, cut |-> 0,
                   order |-> order, phase |-> "whole", whole |-> None, first |-> None]

\* what a call of process_l0_to_l1 left: returned or raised, and what it returned
Outcome == [pc |-> pc, out |-> out, stats |-> stats]

Finished == pc \in {"returned", "raised"}

\* the caller starts process_l0_to_l1 on another list of records
CallWith(recs) ==
    /\ records' = recs
    /\ pc' = "call"
    /\ idx' = 0
    /\ UNCHANGED <<scode, cal, out, stats, spec, pflag, tail, steps>>

\* after the whole batch: the records before the cut
RunFirstPart ==
    /\ Finished
    /\ fn.op = "parts"
    /\ fn.mode = "concat"
    /\ fn.phase = "whole"
    /\ fn' = [fn EXCEPT !.phase = "first", !.whole = Some(Outcome)]
    /\ CallWith(SubSeq(fn.batch, 1, fn.cut))

\* then the records after the cut
RunSecondPart ==
    /\ Finished
    /\ fn.op = "parts"
    /\ fn.mode = "concat"
    /\ fn.phase = "first"
    /\ fn' = [fn EXCEPT !.phase = "second", !.first = Some(Outcome)]
    /\ CallWith(SubSeq(fn.batch, fn.cut + 1, Len(fn.batch)))

\* after the whole batch: the same records in another order
RunReordered ==
    /\ Finished
    /\ fn.op = "parts"
    /\ fn.mode = "order"
    /\ fn.phase = "whole"
    /\ fn' = [fn EXCEPT !.phase = "reordered", !.whole = Some(Outcome)]
    /\ CallWith([i \in 1..Len(fn.batch) |-> fn.batch[fn.order[i]]])

NextParts ==
    \/ Next
    \/ RunFirstPart
    \/ RunSecondPart
    \/ RunReordered

SpecParts == InitParts /\ [][NextParts]_vars

-----------------------------------------------------------------------------
(* Properties *)

Returned == pc = "returned"

\* the output records whose input had a dark frame and a temperature
HasDark(k) == records[k].dark_counts.some
HasTemperature(k) == records[k].temperature_c.some

\* C1: for every recipe, an output record whose input has no dark frame has
\* bit 0 of its mask clear (cs00 without dark gives mask 0).
C1_NoDarkBitClear ==
    \A k \in 1..Len(out) :
        ~HasDark(k) => /\ ~Bit(out[k].processing_flag, 0)
                       /\ scode.code = "cs00" => out[k].processing_flag = 0

TierCount(t) == Cardinality({k \in 1..Len(out) : out[k].dqf = t})

\* C2: when process has returned, good + medium + low = total = the number of
\* input records, and each counter is the number of output records of its tier.
C2_Statistics ==
    Returned =>
        /\ stats.good + stats.medium + stats.low = stats.total
        /\ stats.total = Len(records)
        /\ stats.good = TierCount(0)
        /\ stats.medium = TierCount(1)
        /\ stats.low = TierCount(2)

C2_Witness ==
    /\ Returned
    /\ stats.total = 2
    /\ stats.good = 1
    /\ stats.medium = 1

\* C3: when process has returned there is one output record per input record,
\* in input order, carrying the input's timestamp, integration time and
\* metadata; records of tier Low are kept.
C3_OneToOne ==
    Returned =>
        /\ Len(out) = Len(records)
        /\ \A k \in 1..Len(records) :
              /\ out[k].timestamp = records[k].timestamp
              /\ out[k].integration_time_ms = records[k].integration_time_ms
              /\ out[k].metadata = records[k].metadata

C3_Witness ==
    /\ Returned
    /\ Len(out) = 2
    /\ out[1].dqf = 2
    /\ out[2].dqf = 0

\* C4: every output record's spectrum and uncertainty have the length of the
\* input record's spectrum, for every recipe and every pixel count >= 1.
C4_LengthInvariant ==
    \A k \in 1..Len(out) :
        /\ Len(out[k].spectrum) = Len(records[k].spectrum_counts)
        /\ Len(out[k].uncertainty) = Len(records[k].spectrum_counts)

\* the mask the bit layout of the claim assigns to a recipe
LayoutMask(sc) ==
      (IF sc.dark THEN 1 ELSE 0)
    + (IF sc.nonlinearity THEN 2 ELSE 0)
    + (IF sc.latency THEN 4 ELSE 0)
    + (IF sc.prnu THEN 8 ELSE 0)
    + (IF sc.count_rate THEN 16 ELSE 0)
    + (IF sc.temperature THEN 32 ELSE 0)
    + (IF sc.straylight_mode \in {"MM", "CORRMM"} THEN 64 ELSE 0)
    + (IF sc.sensitivity THEN 128 ELSE 0)
    + (IF sc.wavelength THEN 256 ELSE 0)

\* C5: for a record with both a dark frame and a temperature, the mask is
\* exactly the bits of the steps the recipe enables (dark 0, nonlinearity 1,
\* latency 2, PRNU 3, rate 4, temperature 5, stray light 6, sensitivity 7,
\* wavelength 8), and lies in 0..511.
C5_MaskLayout ==
    \A k \in 1..Len(out) :
        (HasDark(k) /\ HasTemperature(k)) =>
            /\ out[k].processing_flag = LayoutMask(scode)
            /\ out[k].processing_flag \in 0..511

C5_Witness ==
    \E k \in 1..Len(out) :
        /\ HasDark(k)
        /\ HasTemperature(k)
        /\ scode.code = "cs03"
        /\ out[k].processing_flag = 127

\* C6: an output record whose input has no temperature has bit 5 of its mask
\* clear, also under a recipe that applies the temperature correction.
C6_NoTemperatureBitClear ==
    \A k \in 1..Len(out) : ~HasTemperature(k) => ~Bit(out[k].processing_flag, 5)

\* sigma is the square root of counts + 1.5^2, to the resolution of RSqrt
IsSigma(sigma, counts) ==
    LET radicand == RAdd(counts, <<9, 4>>)
        above == RAdd(sigma, <<1, 1000>>)
    IN  /\ RLeq(Num(0), sigma)
        /\ RLeq(RMul(sigma, sigma), radicand)
        /\ RLess(radicand, RMul(above, above))

\* C7: when a record is appended, spec holding the clamped pre-rate
\* spectrum: with convertToCountRate the output is spec / seconds and the
\* uncertainty is sqrt(spec + 1.5^2) / seconds, seconds = integration time /
\* 1000; without it the output is spec and the uncertainty sqrt(spec + 1.5^2).
\* 100 counts at 500 ms give 200, and the rate uncertainty is twice the count
\* uncertainty.
C7_RateConversion ==
    pc = "append" =>
        LET t == rec.integration_time_ms
        IN  /\ Len(spec_out) = Len(spec)
            /\ Len(unc) = Len(spec)
            /\ output_is_rate = scode.count_rate
            /\ \A i \in 1..Len(spec) :
                  IF scode.count_rate
                  THEN /\ RMul(spec_out[i], t) = RMul(spec[i], Num(1000))
                       /\ IsSigma(RDiv(RMul(unc[i], t), Num(1000)), spec[i])
                  ELSE /\ spec_out[i] = spec[i]
                       /\ IsSigma(unc[i], spec[i])
            /\ to_count_rate(<<Num(100)>>, Num(500)) = <<Num(200)>>
            /\ uncertainty_model(<<Num(100)>>, Num(500), TRUE, <<3, 2>>)[1]
                  = RMul(Num(2), uncertainty_model(<<Num(100)>>, Num(500), FALSE, <<3, 2>>)[1])

C7_Witness ==
    /\ pc = "append"
    /\ scode.count_rate
    /\ rec.integration_time_ms = Num(500)
    /\ RLess(Num(0), spec[1])
    /\ spec_out[1] = RMul(Num(2), spec[1])
    /\ unc[1] = RMul(Num(2), RSqrt(RAdd(spec[1], <<9, 4>>)))

\* sums and maximum of the numerators of an array of integers
RECURSIVE IntSum(_, _)
IntSum(a, k) == IF k = 0 THEN 0 ELSE IntSum(a, k - 1) + a[k][1]

IntMax(a) == CHOOSE m \in {a[i][1] : i \in 1..Len(a)} : \A i \in 1..Len(a) : a[i][1] <= m

\* mean(s) / (mean(u) + 1e-12) < k for arrays of integers of one length: the
\* sums decide, 1e-12 only breaking the tie
IntSnrLess(s, u, k) ==
    IF IntSum(u, Len(u)) >= 0 THEN IntSum(s, Len(s)) <= k * IntSum(u, Len(u))
    ELSE IntSum(s, Len(s)) > k * IntSum(u, Len(u))

\* C8: _compute_dqf returns a tier in {0, 1, 2} for every pair of arrays: 2 if
\* a value is non-finite or the spectrum's maximum is <= 0; otherwise, with
\* snr = mean(spectrum) / (mean(uncertainty) + 1e-12), 2 if snr < 5, 1 if
\* 5 <= snr < 15, 0 if snr >= 15.  Mean 20 over 1 is Good, mean 8 over 1 is
\* Medium, an all-zero spectrum is Low.
C8_QualityTiers ==
    (fn.op = "dqf" /\ fn.done) =>
        /\ fn.r \in {0, 1, 2}
        /\ fn.r = IF \E i \in 1..Len(fn.s) : ~IsFinite(fn.s[i]) \/ ~IsFinite(fn.u[i])
                  THEN 2
                  ELSE IF IntMax(fn.s) <= 0 THEN 2
                  ELSE IF IntSnrLess(fn.s, fn.u, 5) THEN 2
                  ELSE IF IntSnrLess(fn.s, fn.u, 15) THEN 1
                  ELSE 0
        /\ (\A i \in 1..Len(fn.s) : fn.s[i] = Num(20) /\ fn.u[i] = Num(1)) => fn.r = 0
        /\ (\A i \in 1..Len(fn.s) : fn.s[i] = Num(8) /\ fn.u[i] = Num(1)) => fn.r = 1
        /\ (\A i \in 1..Len(fn.s) : fn.s[i] = Num(0)) => fn.r = 2

C8_Witness ==
    /\ fn.op = "dqf"
    /\ fn.done
    /\ fn.s = <<Num(8), Num(20), Num(15)>>
    /\ fn.u = <<Num(1), Num(1), Num(1)>>
    /\ fn.r = 1

\* the divisor of a dividing step at pixel i, before the guard
Divisor(i) ==
    IF fn.op = "prnu" THEN fn.c.prnu[i]
    ELSE IF fn.op = "sensitivity" THEN fn.c.sensitivity[i]
    ELSE RAdd(Num(1), RMul(fn.c.temp_coeff[i], RSub(fn.temp.val, fn.c.ref_temp_c)))

\* C9: in the PRNU, temperature and sensitivity steps a divisor of exactly 0
\* at pixel i leaves pixel i as it was, every other pixel is divided by its
\* own divisor, and every value stays finite.
C9_ZeroGuard ==
    (fn.op \in {"prnu", "sensitivity", "temperature"} /\ fn.done) =>
        /\ Len(fn.r) = Len(fn.s)
        /\ (fn.op = "temperature" /\ ~fn.temp.some) => fn.r = fn.s
        /\ (fn.op # "temperature" \/ fn.temp.some) =>
              \A i \in 1..Len(fn.s) :
                 /\ IsFinite(fn.r[i])
                 /\ IF Divisor(i) = Num(0) THEN fn.r[i] = fn.s[i]
                    ELSE RMul(fn.r[i], Divisor(i)) = fn.s[i]

C9_Witness ==
    /\ fn.op = "temperature"
    /\ fn.done
    /\ fn.temp = Some(Num(30))
    /\ fn.s = <<Num(100), Num(100)>>
    /\ fn.c.temp_coeff = << <<-1, 10>>, <<1, 10>> >>
    /\ fn.r = <<Num(100), Num(50)>>

OrderDone == fn.op = "order" /\ fn.phase = "cs01" /\ Returned

\* dark subtraction leaves no negative value in record k
DarkBelowSignal(k) ==
    HasDark(k) =>
        \A i \in 1..Len(records[k].spectrum_counts) :
            RLeq(records[k].dark_counts.val[i], records[k].spectrum_counts[i])

\* C10 as claimed: for every record, cs00 followed by the remaining cs01 steps
\* gives the spectrum cs01 gives on the original record.
C10_OrderAnyRecord ==
    OrderDone => \A k \in 1..Len(out) : out[k].spectrum = fn.manual[k]

\* C10: for every record whose dark frame is absent or nowhere above the
\* signal, cs00 followed by the remaining cs01 steps gives the spectrum cs01
\* gives on the original record.
C10_OrderDarkBelowSignal ==
    OrderDone =>
        \A k \in 1..Len(out) : DarkBelowSignal(k) => out[k].spectrum = fn.manual[k]

C10_Witness ==
    /\ OrderDone
    /\ Len(out) = 1
    /\ HasDark(1)
    /\ DarkBelowSignal(1)
    /\ Len(out[1].spectrum) = 3
    /\ out[1].spectrum = fn.manual[1]
    /\ out[1].spectrum[1] # out[1].spectrum[2]

\* record k has the calibration's pixel count
Matches(k) == Len(records[k].spectrum_counts) = cal.n_pixels

\* C11: under every recipe, no output record is ever produced for a record
\* whose spectrum length differs from the calibration's pixel count, and a
\* batch holding such a record is never returned from.
C11_MismatchRejected ==
    /\ \A k \in 1..Len(out) : Matches(k)
    /\ Returned => \A k \in 1..Len(records) : Matches(k)

Constructed == fn.op = "construct" /\ fn.done

\* C12: constructing the calibration with n_pixels <= 0 (0 and negative)
\* fails and yields no model; for every n_pixels >= 1 it succeeds and prnu,
\* temp_coeff, sensitivity and wavelength_nm each have exactly n_pixels values.
C12_Construction ==
    Constructed =>
        /\ fn.n_pixels <= 0 => (fn.raised /\ ~fn.r.some)
        /\ fn.n_pixels >= 1 =>
              /\ ~fn.raised
              /\ fn.r.some
              /\ Len(fn.r.val.prnu) = fn.n_pixels
              /\ Len(fn.r.val.temp_coeff) = fn.n_pixels
              /\ Len(fn.r.val.sensitivity) = fn.n_pixels
              /\ Len(fn.r.val.wavelength_nm) = fn.n_pixels

DarkSourceDone ==
    fn.op = "darksource" /\ fn.phase = "second" /\ pc \in {"returned", "raised"}

\* C13: two recipes that differ only in dark_unc_source end the same way on
\* every batch, and when they return they return identical output records
\* (spectrum, uncertainty, mask, tier) and identical statistics.
C13_DarkSourceNoEffect ==
    DarkSourceDone =>
        /\ scode.dark_unc_source # fn.first.val.scode.dark_unc_source
        /\ [scode EXCEPT !.dark_unc_source = "MEAS"]
              = [fn.first.val.scode EXCEPT !.dark_unc_source = "MEAS"]
        /\ pc = fn.first.val.pc
        /\ Returned => (out = fn.first.val.out /\ stats = fn.first.val.stats)

C13_Witness ==
    /\ DarkSourceDone
    /\ Returned
    /\ fn.first.val.scode.dark_unc_source = "MAPSIGMA"
    /\ scode.dark_unc_source = "MEAS"
    /\ Len(out) = 2
    /\ Len(out[2].spectrum) = 3
    /\ out = fn.first.val.out
    /\ stats.total = 2

StepOrder ==
    <<"dark", "nonlinearity", "latency", "prnu", "temperature", "straylight",
      "sensitivity", "wavelength", "clip", "rate", "uncertainty", "dqf">>

\* the recipe asks for the step (clamp, uncertainty and classification are
\* not optional)
Enabled(name) ==
    CASE name = "dark" -> scode.dark
      [] name = "nonlinearity" -> scode.nonlinearity
      [] name = "latency" -> scode.latency
      [] name = "prnu" -> scode.prnu
      [] name = "temperature" -> scode.temperature
      [] name = "straylight" -> scode.straylight_mode \in {"MM", "CORRMM"}
      [] name = "sensitivity" -> scode.sensitivity
      [] name = "wavelength" -> scode.wavelength
      [] name = "rate" -> scode.count_rate
      [] OTHER -> TRUE

EnabledSteps == SelectSeq(StepOrder, Enabled)

IsPrefix(a, b) == Len(a) <= Len(b) /\ a = SubSeq(b, 1, Len(a))

\* C14: at every point of a record's processing the steps run so far are the
\* first ones of the list dark, nonlinearity, latency, PRNU, temperature,
\* stray light, sensitivity, wavelength, clamp, rate, uncertainty,
\* classification restricted to the enabled ones (so none runs early or
\* twice); when the record is appended all of them have run, the clamp
\* included, the uncertainty is that of the clamped pre-rate spectrum and the
\* tier is that of the final spectrum.
C14_StepOrder ==
    /\ IsPrefix(steps, EnabledSteps)
    /\ pc = "append" =>
          /\ steps = EnabledSteps
          /\ spec = Clip0(spec)
          /\ unc = uncertainty_model(spec, rec.integration_time_ms, scode.count_rate, <<3, 2>>)
          /\ spec_out = IF scode.count_rate
                        THEN to_count_rate(spec, rec.integration_time_ms) ELSE spec
          /\ dqf = _compute_dqf(spec_out, unc)

C14_Witness ==
    /\ pc = "append"
    /\ scode.code = "mca0"
    /\ steps = StepOrder
    /\ HasDark(idx)
    /\ \E i \in 1..Len(spec) : spec[i] = Num(0)

LatencyDone == fn.op = "latency" /\ fn.done

IsConstant(a) == \A i \in 1..Len(a) : a[i] = a[1]

\* C15: latency_correct returns a spectrum of fewer than 3 pixels as it is,
\* and returns a constant spectrum of any length unchanged at every pixel,
\* the first and the last included.
C15_LatencyConstant ==
    LatencyDone =>
        /\ Len(fn.s) < 3 => fn.r = fn.s
        /\ IsConstant(fn.s) => fn.r = fn.s

ConcatDone == fn.op = "parts" /\ fn.phase = "second" /\ Finished
ReorderDone == fn.op = "parts" /\ fn.phase = "reordered" /\ Finished

\* two statistics added counter by counter
AddStats(a, b) ==
    [total |-> a.total + b.total, good |-> a.good + b.good,
     medium |-> a.medium + b.medium, low |-> a.low + b.low]

\* the outputs of a reordered run put back at their records' indices
Reindexed(o, order) == [j \in 1..Len(o) |-> o[CHOOSE i \in 1..Len(o) : order[i] = j]]

\* C16: processing a batch A followed by B returns exactly when processing A
\* and processing B both return, and then its outputs are the outputs of A
\* followed by those of B and its statistics are the two statistics added
\* counter by counter; processing the batch in any other order returns exactly
\* when the sequential run does, with the same statistics and, put back at
\* their records' indices, the same outputs.
C16_Independent ==
    /\ ConcatDone =>
          /\ fn.whole.val.pc = "returned" <=> (fn.first.val.pc = "returned" /\ Returned)
          /\ fn.whole.val.pc = "returned" =>
                /\ fn.whole.val.out = fn.first.val.out \o out
                /\ fn.whole.val.stats = AddStats(fn.first.val.stats, stats)
    /\ ReorderDone =>
          /\ fn.whole.val.pc = pc
          /\ Returned =>
                /\ fn.whole.val.out = Reindexed(out, fn.order)
                /\ fn.whole.val.stats = stats

C16_Witness ==
    /\ ConcatDone
    /\ Returned
    /\ fn.cut = 1
    /\ Len(fn.batch) = 2
    /\ Len(out) = 1
    /\ fn.whole.val.out = fn.first.val.out \o out
    /\ fn.first.val.out[1].dqf # out[1].dqf
    /\ fn.first.val.out[1].spectrum # out[1].spectrum

C16_WitnessReordered ==
    /\ ReorderDone
    /\ Returned
    /\ fn.order = <<2, 1>>
    /\ out[1].timestamp = 2
    /\ out[1].dqf # out[2].dqf
    /\ fn.whole.val.out = <<out[2], out[1]>>

====
